---- MODULE Spec2Model ----
(***************************************************************************)
(* Model of the reverse-mode autodiff engine of src/src/tensor.rs.         *)
(*                                                                         *)
(* A Tensor is an Rc<RefCell<TensorData>>: the model names each allocation *)
(* by its index 1..Len(data) and keeps one sequence per TensorData field.  *)
(* Data are scalar integers (f32 arithmetic on small integers is exact).   *)
(* An Option<ArrayD> is the record None or Some(v).                        *)
(***************************************************************************)
EXTENDS Integers, Sequences, FiniteSets, TLC

VARIABLES
    data,        \* TensorData.data, per node
    grad,        \* TensorData.grad, per node: None or Some(v)
    _op,         \* TensorData._op, per node: "None", "+", "*", "tanh", "relu"
    _children,   \* TensorData._children, per node: sequence of nodes
    _backward,   \* TensorData._backward, per node: "None" or the closure's name
    _uuid,       \* TensorData._uuid, per node
    borrowFlag,  \* the RefCell of each node: 0 unused, k > 0 readers, -1 a writer
    pc,          \* "idle", "built", "loop", "call", or the panic that ended the program
    self,        \* the receiver of the running (or last) backward()
    topo,        \* the local topo of backward()
    visited,     \* the local visited of backward()
    i,           \* position of `for v in topo`
    calls,       \* number of backward() calls made so far
    grad0,       \* history: grad when the running (or last) backward() began
    prevSelf,    \* history: the receiver of the backward() before this one, 0 if none
    ran,         \* history: closure invocations per node in this backward()
    operands     \* history: per node, the operands its constructor was called with

vars == <<data, grad, _op, _children, _backward, _uuid, borrowFlag, pc, self,
          topo, visited, i, calls, grad0, prevSelf, ran, operands>>

(* Bounds of the model. *)
MaxNodes == 3
MaxCalls == 2
LeafData == {-1, 0, 2}

Nodes == 1..Len(data)

None == [some |-> FALSE, val |-> 0]
Some(v) == [some |-> TRUE, val |-> v]

\* Option::unwrap_or_else(|| arr0(0.0))
UnwrapOrZero(o) == IF o.some THEN o.val ELSE 0

(* ---------------- RefCell borrow rules ---------------- *)
\* RefCell::borrow succeeds unless a writer holds the cell
BorrowOK(bf, x) == bf[x] >= 0
\* RefCell::borrow_mut succeeds only on an unused cell
BorrowMutOK(bf, x) == bf[x] = 0
Acquire(bf, x) == [bf EXCEPT ![x] = @ + 1]
AcquireMut(bf, x) == [bf EXCEPT ![x] = -1]
Release(bf, x) == [bf EXCEPT ![x] = @ - 1]

(* ---------------- identity: impl Hash / PartialEq ---------------- *)
\* mutant: equality on the contents instead of the identity token
TensorEqData(a, b) == data[a] = data[b]

\* tensor.rs 127-131 (and Hash, 121-125): identity is the _uuid
TensorEq(a, b) == _uuid[a] = _uuid[b]

\* Rc::ptr_eq
PtrEq(a, b) == a = b

(* ---------------- forward functions ---------------- *)
\* f32::tanh returns an integer only at 0 and where it saturates to +-1
TanhExact(x) == x = 0 \/ x >= 10 \/ x <= -10
TanhFwd(x) == IF x = 0 THEN 0 ELSE IF x > 0 THEN 1 ELSE -1
ReluFwd(x) == IF x > 0 THEN x ELSE 0

(* ---------------- construction ---------------- *)
\* mutant: the result node is recorded as its own input
TensorNewSelfInput(d, o, ch, bw) ==
    /\ data' = Append(data, d)
    /\ grad' = Append(grad, None)
    /\ _op' = Append(_op, o)
    /\ _children' = Append(_children, [k \in 1..Len(ch) |-> Len(data) + 1])
    /\ _backward' = Append(_backward, bw)
    /\ _uuid' = Append(_uuid, Len(_uuid) + 1)
    /\ borrowFlag' = Append(borrowFlag, 0)
    /\ grad0' = Append(grad0, None)
    /\ ran' = Append(ran, 0)
    /\ UNCHANGED <<pc, self, topo, visited, i, calls, prevSelf>>

\* Tensor::new(TensorData::new(d)) with _op, _children, _backward then set
TensorNew(d, o, ch, bw) ==
    /\ data' = Append(data, d)
    /\ grad' = Append(grad, None)
    /\ _op' = Append(_op, o)
    /\ _children' = Append(_children, ch)
    /\ _backward' = Append(_backward, bw)
    /\ _uuid' = Append(_uuid, Len(_uuid) + 1)
    /\ borrowFlag' = Append(borrowFlag, 0)
    /\ grad0' = Append(grad0, None)
    /\ ran' = Append(ran, 0)
    /\ UNCHANGED <<pc, self, topo, visited, i, calls, prevSelf>>

\* a panic aborts the program: kind is "already_borrowed" (RefCell) or
\* "unwrap_none" (Option::unwrap)
Panic(kind) ==
    /\ pc' = kind
    /\ UNCHANGED <<data, grad, _op, _children, _backward, _uuid, operands, borrowFlag,
                   self, topo, visited, i, calls, grad0, prevSelf, ran>>

FromArray ==
    /\ pc = "idle"
    /\ Len(data) < MaxNodes
    /\ \E d \in LeafData :
          /\ TensorNew(d, "None", <<>>, "None")
          /\ operands' = Append(operands, <<>>)

\* mutant: the inputs are recorded in the opposite order
AddSwapped ==
    /\ pc = "idle"
    /\ Len(data) < MaxNodes
    /\ \E a \in Nodes, b \in Nodes :
          IF BorrowOK(borrowFlag, a) /\ BorrowOK(borrowFlag, b)
          THEN /\ TensorNew(data[a] + data[b], "+", <<b, a>>, "add")
               /\ operands' = Append(operands, <<a, b>>)
          ELSE Panic("already_borrowed")

\* Add::add
Add ==
    /\ pc = "idle"
    /\ Len(data) < MaxNodes
    /\ \E a \in Nodes, b \in Nodes :
          IF BorrowOK(borrowFlag, a) /\ BorrowOK(borrowFlag, b)
          THEN /\ TensorNew(data[a] + data[b], "+", <<a, b>>, "add")
               /\ operands' = Append(operands, <<a, b>>)
          ELSE Panic("already_borrowed")

Mul ==
    /\ pc = "idle"
    /\ Len(data) < MaxNodes
    /\ \E a \in Nodes, b \in Nodes :
          IF BorrowOK(borrowFlag, a) /\ BorrowOK(borrowFlag, b)
          THEN /\ TensorNew(data[a] * data[b], "*", <<a, b>>, "mul")
               /\ operands' = Append(operands, <<a, b>>)
          ELSE Panic("already_borrowed")

Tanh ==
    /\ pc = "idle"
    /\ Len(data) < MaxNodes
    /\ \E a \in Nodes :
          /\ TanhExact(data[a])
          /\ IF BorrowOK(borrowFlag, a)
             THEN /\ TensorNew(TanhFwd(data[a]), "tanh", <<a>>, "tanh")
                  /\ operands' = Append(operands, <<a>>)
             ELSE Panic("already_borrowed")

Relu ==
    /\ pc = "idle"
    /\ Len(data) < MaxNodes
    /\ \E a \in Nodes :
          IF BorrowOK(borrowFlag, a)
          THEN /\ TensorNew(ReluFwd(data[a]), "relu", <<a>>, "relu")
               /\ operands' = Append(operands, <<a>>)
          ELSE Panic("already_borrowed")

(* ---------------- _build_topo ---------------- *)
RECURSIVE _build_topo(_, _)
RECURSIVE ForEachChild(_, _, _)

\* mutant: no visited test
InsertsAlways(vis, v) == TRUE

\* HashSet::insert: false when an equal element is already in the set
Inserts(vis, v) == ~ \E w \in vis : TensorEq(w, v)

\* the state st is [topo, visited, ok]; ok turns FALSE when a borrow() fails
_build_topo(v, st) ==
    IF ~ st.ok THEN st
    ELSE IF ~ BorrowOK(borrowFlag, v) THEN [st EXCEPT !.ok = FALSE]
    ELSE IF Inserts(st.visited, v)
    THEN LET st1 == [st EXCEPT !.visited = @ \cup {v}]
             st2 == ForEachChild(_children[v], 1, st1)
         IN  [st2 EXCEPT !.topo = Append(@, v)]
    ELSE st

ForEachChild(ch, k, st) ==
    IF k > Len(ch) THEN st
    ELSE ForEachChild(ch, k + 1, _build_topo(ch[k], st))

\* mutant: topo is left in postorder
ReverseMissing(s) == s

\* tensor.rs 92: topo.reverse()
Reverse(s) == [k \in 1..Len(s) |-> s[Len(s) + 1 - k]]

(* ---------------- backward() ---------------- *)
\* lines 89-91
BackwardBegin ==
    /\ pc = "idle"
    /\ calls < MaxCalls
    /\ \E t \in Nodes :
          LET r == _build_topo(t, [topo |-> <<>>, visited |-> {}, ok |-> TRUE])
          IN  /\ self' = t
              /\ topo' = r.topo
              /\ visited' = r.visited
              /\ pc' = IF r.ok THEN "built" ELSE "already_borrowed"
              /\ prevSelf' = IF calls = 0 THEN 0 ELSE self
    /\ calls' = calls + 1
    /\ grad0' = grad
    /\ ran' = [k \in Nodes |-> 0]
    /\ i' = 0
    /\ UNCHANGED <<data, grad, _op, _children, _backward, _uuid, operands, borrowFlag>>

\* mutant: the terminal's gradient is not seeded
BackwardSeedMissing ==
    /\ pc = "built"
    /\ topo' = Reverse(topo)
    /\ pc' = "loop"
    /\ i' = 1
    /\ UNCHANGED <<data, grad, _op, _children, _backward, _uuid, operands, borrowFlag,
                   self, visited, calls, grad0, prevSelf, ran>>

\* mutant: the seed is added to the terminal's gradient
BackwardSeedAccumulate ==
    /\ pc = "built"
    /\ IF BorrowMutOK(borrowFlag, self)
       THEN /\ topo' = Reverse(topo)
            /\ grad' = [grad EXCEPT ![self] = Some(UnwrapOrZero(grad[self]) + 1)]
            /\ pc' = "loop"
            /\ i' = 1
            /\ UNCHANGED <<data, _op, _children, _backward, _uuid, operands, borrowFlag,
                           self, visited, calls, grad0, prevSelf, ran>>
       ELSE Panic("already_borrowed")

\* mutant: the seed step clears the gradient of every other node
BackwardSeedZeroGrad ==
    /\ pc = "built"
    /\ IF BorrowMutOK(borrowFlag, self)
       THEN /\ topo' = Reverse(topo)
            /\ grad' = [n \in Nodes |-> IF n = self THEN Some(1) ELSE None]
            /\ pc' = "loop"
            /\ i' = 1
            /\ UNCHANGED <<data, _op, _children, _backward, _uuid, operands, borrowFlag,
                           self, visited, calls, grad0, prevSelf, ran>>
       ELSE Panic("already_borrowed")

\* lines 92-95
BackwardSeed ==
    /\ pc = "built"
    /\ IF BorrowMutOK(borrowFlag, self)
       THEN /\ topo' = Reverse(topo)
            /\ grad' = [grad EXCEPT ![self] = Some(1)]
            /\ pc' = "loop"
            /\ i' = 1
            /\ UNCHANGED <<data, _op, _children, _backward, _uuid, operands, borrowFlag,
                           self, visited, calls, grad0, prevSelf, ran>>
       ELSE Panic("already_borrowed")

\* lines 96-98, a node without closure
BackwardSkip ==
    /\ pc = "loop"
    /\ i <= Len(topo)
    /\ _backward[topo[i]] = "None"
    /\ IF BorrowOK(borrowFlag, topo[i])
       THEN /\ i' = i + 1
            /\ UNCHANGED <<data, grad, _op, _children, _backward, _uuid, operands, borrowFlag,
                           pc, self, topo, visited, calls, grad0, prevSelf, ran>>
       ELSE Panic("already_borrowed")

\* lines 98-99: both v.borrow() temporaries live while backprop runs
BackwardInvoke ==
    /\ pc = "loop"
    /\ i <= Len(topo)
    /\ _backward[topo[i]] # "None"
    /\ IF BorrowOK(borrowFlag, topo[i])
       THEN /\ borrowFlag' = Acquire(Acquire(borrowFlag, topo[i]), topo[i])
            /\ ran' = [ran EXCEPT ![topo[i]] = @ + 1]
            /\ pc' = "call"
            /\ UNCHANGED <<data, grad, _op, _children, _backward, _uuid, operands,
                           self, topo, visited, i, calls, grad0, prevSelf>>
       ELSE Panic("already_borrowed")

\* line 102
BackwardReturn ==
    /\ pc = "loop"
    /\ i > Len(topo)
    /\ pc' = "idle"
    /\ topo' = <<>>
    /\ visited' = {}
    /\ i' = 0
    /\ UNCHANGED <<data, grad, _op, _children, _backward, _uuid, operands, borrowFlag,
                   self, calls, grad0, prevSelf, ran>>

\* the end of `backprop(&v.borrow())`: the temporaries of v are dropped
ClosureDone(bf, gr) ==
    /\ grad' = gr
    /\ borrowFlag' = Release(Release(bf, topo[i]), topo[i])
    /\ pc' = "loop"
    /\ i' = i + 1
    /\ UNCHANGED <<data, _op, _children, _backward, _uuid, operands,
                   self, topo, visited, calls, grad0, prevSelf, ran>>

\* a panic inside a closure, after the writes gr were made
ClosurePanic(kind, gr) ==
    /\ grad' = gr
    /\ pc' = kind
    /\ UNCHANGED <<data, _op, _children, _backward, _uuid, operands, borrowFlag,
                   self, topo, visited, i, calls, grad0, prevSelf, ran>>

(* ---------------- the backward closures ---------------- *)
\* mutant: the child's gradient is replaced, not added to
AddOverwrite(gr, c, g) == [gr EXCEPT ![c] = Some(g)]

\* tensor.rs 157-165: one iteration of `for child in out._children.iter()`
AddAccumulate(gr, c, g) == [gr EXCEPT ![c] = Some(UnwrapOrZero(gr[c]) + g)]

\* mutant: only _children[0] receives the gradient
AddBackwardFirstOnly ==
    /\ pc = "call"
    /\ _backward[topo[i]] = "add"
    /\ LET out == topo[i]
           c1 == _children[out][1]
           g == grad[out].val
       IN  IF ~ grad[out].some THEN ClosurePanic("unwrap_none", grad)
           ELSE IF ~ BorrowMutOK(borrowFlag, c1) THEN ClosurePanic("already_borrowed", grad)
           ELSE ClosureDone(borrowFlag, AddAccumulate(grad, c1, g))

\* Add::add::backward
AddBackward ==
    /\ pc = "call"
    /\ _backward[topo[i]] = "add"
    /\ LET out == topo[i]
           c1 == _children[out][1]
           c2 == _children[out][2]
           g == grad[out].val
           g1 == AddAccumulate(grad, c1, g)
       IN  IF ~ grad[out].some THEN ClosurePanic("unwrap_none", grad)
           ELSE IF ~ BorrowMutOK(borrowFlag, c1) THEN ClosurePanic("already_borrowed", grad)
           ELSE IF ~ BorrowMutOK(borrowFlag, c2) THEN ClosurePanic("already_borrowed", g1)
           ELSE ClosureDone(borrowFlag, AddAccumulate(g1, c2, g))

\* mutant: the same-node test is missing
MulReadNoAlias(out) ==
    LET left == _children[out][1]
        right == _children[out][2]
    IN  [left_data |-> data[left],
         right_data |-> data[right],
         left_grad |-> UnwrapOrZero(grad[left]),
         right_grad |-> UnwrapOrZero(grad[right]),
         children_are_same |-> FALSE]

\* mutant: the previous gradients of the operands are not read
MulReadZeroGrad(out) ==
    LET left == _children[out][1]
        right == _children[out][2]
    IN  [left_data |-> data[left],
         right_data |-> data[right],
         left_grad |-> 0,
         right_grad |-> 0,
         children_are_same |-> PtrEq(left, right)]

\* tensor.rs 185-202: the values cloned under the two shared borrows
MulRead(out) ==
    LET left == _children[out][1]
        right == _children[out][2]
    IN  [left_data |-> data[left],
         right_data |-> data[right],
         left_grad |-> UnwrapOrZero(grad[left]),
         right_grad |-> UnwrapOrZero(grad[right]),
         children_are_same |-> PtrEq(left, right)]

\* tensor.rs 205-214: the borrow_mut calls of the branch taken all succeed
MulBorrowsOK(bf, out, rd) ==
    LET left == _children[out][1]
        right == _children[out][2]
    IN  IF rd.children_are_same
        THEN BorrowMutOK(bf, left)
        ELSE BorrowMutOK(bf, left) /\ BorrowMutOK(AcquireMut(bf, left), right)

\* mutant: the aliased branch applies one of the two contributions only
MulWriteOneSide(gr, out, g, rd) ==
    LET left == _children[out][1]
        right == _children[out][2]
    IN  IF rd.children_are_same
        THEN [gr EXCEPT ![left] = Some(rd.left_grad + g * rd.right_data)]
        ELSE LET gl == [gr EXCEPT ![left] = Some(rd.left_grad + g * rd.right_data)]
             IN  [gl EXCEPT ![right] = Some(rd.right_grad + g * rd.left_data)]

\* mutant: each operand is scaled by its own data instead of its sibling's
MulWriteOwnData(gr, out, g, rd) ==
    LET left == _children[out][1]
        right == _children[out][2]
    IN  IF rd.children_are_same
        THEN [gr EXCEPT ![left] = Some(rd.left_grad + g * (rd.left_data + rd.right_data))]
        ELSE LET gl == [gr EXCEPT ![left] = Some(rd.left_grad + g * rd.left_data)]
             IN  [gl EXCEPT ![right] = Some(rd.right_grad + g * rd.right_data)]

\* tensor.rs 205-214: the gradient writes
MulWrite(gr, out, g, rd) ==
    LET left == _children[out][1]
        right == _children[out][2]
    IN  IF rd.children_are_same
        THEN [gr EXCEPT ![left] = Some(rd.left_grad + g * (rd.left_data + rd.right_data))]
        ELSE LET gl == [gr EXCEPT ![left] = Some(rd.left_grad + g * rd.right_data)]
             IN  [gl EXCEPT ![right] = Some(rd.right_grad + g * rd.left_data)]

\* Mul::mul::backward
MulBackward ==
    /\ pc = "call"
    /\ _backward[topo[i]] = "mul"
    /\ LET out == topo[i]
           left == _children[out][1]
           right == _children[out][2]
           rd == MulRead(out)
       IN  IF ~ grad[out].some THEN ClosurePanic("unwrap_none", grad)
           ELSE IF ~ (BorrowOK(borrowFlag, left) /\ BorrowOK(borrowFlag, right))
                THEN ClosurePanic("already_borrowed", grad)
           ELSE IF ~ MulBorrowsOK(borrowFlag, out, rd) THEN ClosurePanic("already_borrowed", grad)
           ELSE ClosureDone(borrowFlag, MulWrite(grad, out, grad[out].val, rd))

\* tensor.rs 58: grad * (1.0 - &tanh_out * &tanh_out)
TanhGradInput(out) == grad[out].val * (1 - data[out] * data[out])

\* tensor.rs 80: grad * relu_out.mapv(|x| if x > 0.0 { 1.0 } else { 0.0 })
ReluGradInput(out) == grad[out].val * (IF data[out] > 0 THEN 1 ELSE 0)

\* mutant: the unary closures add to the input's gradient
UnaryAccumulate(gr, c, grad_input) == [gr EXCEPT ![c] = Some(UnwrapOrZero(gr[c]) + grad_input)]

\* tensor.rs 59 and 81: out._children[0].borrow_mut().grad = Some(grad_input)
UnaryWrite(gr, c, grad_input) == [gr EXCEPT ![c] = Some(grad_input)]

\* Tensor::tanh::backward
TanhBackward ==
    /\ pc = "call"
    /\ _backward[topo[i]] = "tanh"
    /\ LET out == topo[i]
           c == _children[out][1]
       IN  IF ~ grad[out].some THEN ClosurePanic("unwrap_none", grad)
           ELSE IF ~ BorrowMutOK(borrowFlag, c) THEN ClosurePanic("already_borrowed", grad)
           ELSE ClosureDone(borrowFlag, UnaryWrite(grad, c, TanhGradInput(out)))

\* mutant: the closure assigns the input's data instead of its grad
ReluBackwardData ==
    /\ pc = "call"
    /\ _backward[topo[i]] = "relu"
    /\ LET out == topo[i]
           c == _children[out][1]
       IN  IF ~ grad[out].some THEN ClosurePanic("unwrap_none", grad)
           ELSE IF ~ BorrowMutOK(borrowFlag, c) THEN ClosurePanic("already_borrowed", grad)
           ELSE /\ data' = [data EXCEPT ![c] = ReluGradInput(out)]
                /\ borrowFlag' = Release(Release(borrowFlag, out), out)
                /\ pc' = "loop"
                /\ i' = i + 1
                /\ UNCHANGED <<grad, _op, _children, _backward, _uuid, operands,
                               self, topo, visited, calls, grad0, prevSelf, ran>>

\* Tensor::relu::backward
ReluBackward ==
    /\ pc = "call"
    /\ _backward[topo[i]] = "relu"
    /\ LET out == topo[i]
           c == _children[out][1]
       IN  IF ~ grad[out].some THEN ClosurePanic("unwrap_none", grad)
           ELSE IF ~ BorrowMutOK(borrowFlag, c) THEN ClosurePanic("already_borrowed", grad)
           ELSE ClosureDone(borrowFlag, UnaryWrite(grad, c, ReluGradInput(out)))

(* ---------------- the program ---------------- *)
Init ==
    /\ data = <<>>
    /\ grad = <<>>
    /\ _op = <<>>
    /\ _children = <<>>
    /\ _backward = <<>>
    /\ _uuid = <<>>
    /\ borrowFlag = <<>>
    /\ pc = "idle"
    /\ self = 0
    /\ topo = <<>>
    /\ visited = {}
    /\ i = 0
    /\ calls = 0
    /\ grad0 = <<>>
    /\ prevSelf = 0
    /\ ran = <<>>
    /\ operands = <<>>

Next ==
    \/ FromArray
    \/ Add
    \/ Mul
    \/ Tanh
    \/ Relu
    \/ BackwardBegin
    \/ BackwardSeed
    \/ BackwardSkip
    \/ BackwardInvoke
    \/ AddBackward
    \/ MulBackward
    \/ TanhBackward
    \/ ReluBackward
    \/ BackwardReturn

Spec == Init /\ [][Next]_vars

TypeOK ==
    /\ pc \in {"idle", "built", "loop", "call", "already_borrowed", "unwrap_none"}
    /\ Len(data) <= MaxNodes
    /\ \A n \in Nodes : grad[n].some \in BOOLEAN

(* ======================= properties ======================= *)

\* the nodes reachable from t through _children, t included
RECURSIVE Reach(_)
Reach(t) == {t} \cup UNION {Reach(_children[t][k]) : k \in 1..Len(_children[t])}

\* the local derivative of node t with respect to its k-th input
Local(t, k) ==
    IF _op[t] = "+" THEN 1
    ELSE IF _op[t] = "*" THEN data[_children[t][3 - k]]
    ELSE IF _op[t] = "relu" THEN (IF data[t] > 0 THEN 1 ELSE 0)
    ELSE 1 - data[t] * data[t]

RECURSIVE SumSlots(_, _, _)
RECURSIVE Deriv(_, _)
\* the derivative of t with respect to n: the sum over the paths from t to n
\* of the product of the local derivatives
Deriv(t, n) == IF t = n THEN 1 ELSE SumSlots(t, n, 1)
SumSlots(t, n, k) ==
    IF k > Len(_children[t]) THEN 0
    ELSE Local(t, k) * Deriv(_children[t][k], n) + SumSlots(t, n, k + 1)

\* a backward() call has returned and no other has begun
Returned == pc = "idle" /\ calls >= 1

\* no node reachable from t held a gradient when the last backward() began
FreshAt(t) == \A n \in Reach(t) : ~ grad0[n].some

\* C1: for a DAG of leaves, add, multiply and relu whose nodes hold no
\* gradient, one backward() from the terminal leaves in every reachable node
\* the derivative of the terminal with respect to that node.
C1_Derivative ==
    (/\ Returned
     /\ FreshAt(self)
     /\ \A n \in Reach(self) : _op[n] # "tanh")
    => \A n \in Reach(self) : grad[n] = Some(Deriv(self, n))

\* the position of node n in the sequence s, 0 if absent
Position(s, n) == IF \E k \in 1..Len(s) : s[k] = n
                  THEN CHOOSE k \in 1..Len(s) : s[k] = n
                  ELSE 0

\* C2: the sequence computed by _build_topo from a terminal holds every
\* node reachable through inputs exactly once, every node after each of its
\* inputs, and the terminal last.
C2_TopoOrder ==
    pc = "built" =>
        /\ {topo[k] : k \in 1..Len(topo)} = Reach(self)
        /\ Len(topo) = Cardinality(Reach(self))
        /\ \A k \in 1..Len(topo) : \A j \in 1..Len(_children[topo[k]]) :
              /\ Position(topo, _children[topo[k]][j]) >= 1
              /\ Position(topo, _children[topo[k]][j]) < k
        /\ topo[Len(topo)] = self

\* a terminal with an aliased binary node, a node consumed by two distinct
\* nodes and two distinct nodes of equal data below it
C2_Witness ==
    /\ pc = "built"
    /\ \E a \in Reach(self), b \in Reach(self) : a # b /\ data[a] = data[b]
    /\ \E n \in Reach(self) : Len(_children[n]) = 2 /\ _children[n][1] = _children[n][2]
    /\ \E n \in Reach(self), a \in Reach(self), b \in Reach(self) :
          /\ a # b
          /\ \E j \in 1..Len(_children[a]) : _children[a][j] = n
          /\ \E j \in 1..Len(_children[b]) : _children[b][j] = n

\* C3: for y = x + x with x a leaf without gradient, backward() from y
\* leaves x.grad = 2, twice the seeded gradient 1 of y.
C3_AddAliased ==
    (/\ Returned
     /\ _op[self] = "+"
     /\ _children[self][1] = _children[self][2]
     /\ _backward[_children[self][1]] = "None"
     /\ ~ grad0[_children[self][1]].some)
    => /\ grad[self] = Some(1)
       /\ grad[_children[self][1]] = Some(2)

C3_Witness ==
    /\ Returned
    /\ _op[self] = "+"
    /\ _children[self][1] = _children[self][2]
    /\ _backward[_children[self][1]] = "None"
    /\ ~ grad0[_children[self][1]].some
    /\ ran[self] = 1

\* C4: for y = x * x with x a leaf of data v without gradient, y.data is
\* v * v and backward() from y leaves x.grad = 2 * v.
C4_MulAliased ==
    /\ \A y \in Nodes :
          (_op[y] = "*" /\ _children[y][1] = _children[y][2])
          => data[y] = data[_children[y][1]] * data[_children[y][1]]
    /\ (/\ Returned
        /\ _op[self] = "*"
        /\ _children[self][1] = _children[self][2]
        /\ _backward[_children[self][1]] = "None"
        /\ ~ grad0[_children[self][1]].some)
       => grad[_children[self][1]] = Some(2 * data[_children[self][1]])

C4_Witness ==
    /\ Returned
    /\ _op[self] = "*"
    /\ _children[self][1] = _children[self][2]
    /\ _backward[_children[self][1]] = "None"
    /\ ~ grad0[_children[self][1]].some
    /\ data[_children[self][1]] # 0
    /\ ran[self] = 1

\* C5 as stated: for z = x + y, after backward() from z the gradients of
\* x, y and z are equal, for every pair of operands.
C5_AddPassthroughAnyPair ==
    (Returned /\ _op[self] = "+")
    => /\ grad[_children[self][1]] = grad[self]
       /\ grad[_children[self][2]] = grad[self]

\* the operands of the add node z are distinct and unrelated and held no
\* gradient when the last backward() began
IndependentFreshOperands(z) ==
    LET x == _children[z][1]
        y == _children[z][2]
    IN  /\ x # y
        /\ x \notin Reach(y)
        /\ y \notin Reach(x)
        /\ ~ grad0[x].some
        /\ ~ grad0[y].some

\* C5 (amended): for z = x + y with x and y distinct nodes, neither reachable
\* from the other, both without gradient before the call, backward() from z
\* leaves x.grad = y.grad = z.grad.
C5_AddPassthrough ==
    (Returned /\ _op[self] = "+" /\ IndependentFreshOperands(self))
    => /\ grad[_children[self][1]] = grad[self]
       /\ grad[_children[self][2]] = grad[self]

C5_Witness ==
    /\ Returned
    /\ _op[self] = "+"
    /\ IndependentFreshOperands(self)
    /\ ran[self] = 1
    /\ grad[_children[self][1]] = Some(1)
    /\ data[_children[self][1]] # data[_children[self][2]]

\* C6: backward() changes gradient fields only: the data, inputs and
\* operation tag of every node stay as they were at its construction.
C6_Frame ==
    [][\A n \in Nodes :
          /\ data'[n] = data[n]
          /\ _children'[n] = _children[n]
          /\ _op'[n] = _op[n]]_vars

\* two backward() calls have returned, the last ran a multiply closure
C6_Witness ==
    /\ pc = "idle"
    /\ calls >= 2
    /\ \E n \in Nodes : _backward[n] = "mul" /\ ran[n] = 1
    /\ \E n \in Nodes : grad[n].some /\ grad[n].val # data[n]

\* C7: within one backward() the closure of every reachable non-leaf node
\* is invoked exactly once, and leaves are skipped without error.
C7_ClosureOnce ==
    /\ \A n \in Nodes : ran[n] <= 1
    /\ \A n \in Nodes : _backward[n] = "None" => ran[n] = 0
    /\ Returned => \A n \in Reach(self) : _backward[n] # "None" => ran[n] = 1
    /\ pc \in {"idle", "built", "loop", "call"}

\* a returned backward() over a non-leaf node reachable through both operand
\* slots of the terminal, with a leaf below it
C7_Witness ==
    /\ Returned
    /\ Len(_children[self]) = 2
    /\ _children[self][1] = _children[self][2]
    /\ _backward[_children[self][1]] # "None"
    /\ ran[_children[self][1]] = 1
    /\ \E n \in Reach(self) : _backward[n] = "None"

\* the contribution of the closure of out to its input c
RECURSIVE ContributionFrom(_, _, _)
ContributionFrom(out, c, k) ==
    IF k > Len(_children[out]) THEN 0
    ELSE (IF _children[out][k] = c THEN grad[out].val * Local(out, k) ELSE 0)
         + ContributionFrom(out, c, k + 1)
Contribution(out, c) == ContributionFrom(out, c, 1)

ChildSet(n) == {_children[n][k] : k \in 1..Len(_children[n])}

\* C8: every write a backward closure of any operation makes to an input's
\* gradient yields the input's previous gradient (zero if absent) plus the
\* new contribution.
C8_Accumulate ==
    [][(pc = "call" /\ pc' = "loop")
       => \A c \in ChildSet(topo[i]) :
             grad'[c] = Some(UnwrapOrZero(grad[c]) + Contribution(topo[i], c))]_vars

\* C9 as stated: a second backward() from the same terminal yields the
\* gradients of the first.
C9_SecondCallSame ==
    (pc = "idle" /\ calls = 2 /\ prevSelf = self)
    => \A n \in Reach(self) : grad[n] = grad0[n]

\* C9 (amended): backward() never clears a gradient, and an add or multiply
\* closure treats an input's gradient as zero only when it is absent;
\* otherwise it adds its contribution to the value the input holds, also
\* when that value was left by an earlier backward().
C9_NoReset ==
    [][/\ \A n \in Nodes : grad[n].some => grad'[n].some
       /\ (pc = "call" /\ pc' = "loop" /\ _backward[topo[i]] \in {"add", "mul"})
          => \A c \in ChildSet(topo[i]) :
                grad'[c] = Some(UnwrapOrZero(grad[c]) + Contribution(topo[i], c))]_vars

\* a second backward() from the same add or multiply terminal has added to
\* the gradient the first left in an input
C9_Witness ==
    /\ pc = "idle"
    /\ calls = 2
    /\ prevSelf = self
    /\ _backward[self] \in {"add", "mul"}
    /\ \E c \in ChildSet(self) :
          /\ grad0[c].some
          /\ grad0[c].val # 0
          /\ grad[c].val = grad0[c].val + Contribution(self, c)

\* C10: no step of construction, _build_topo or backward() asks for an
\* exclusive access to a node that is still borrowed, nor for a shared one
\* to a node exclusively borrowed.
C10_NoBorrowConflict ==
    /\ pc # "already_borrowed"
    /\ \A n \in Nodes : borrowFlag[n] >= 0
    /\ pc = "call" => \A c \in ChildSet(topo[i]) : borrowFlag[c] = 0

\* the multiply closure of a node with both operands the same node, itself
\* not a leaf, has written the gradient
C10_Witness ==
    /\ pc = "loop"
    /\ i > 1
    /\ _backward[topo[i - 1]] = "mul"
    /\ _children[topo[i - 1]][1] = _children[topo[i - 1]][2]
    /\ _backward[_children[topo[i - 1]][1]] # "None"
    /\ grad[_children[topo[i - 1]][1]].some

\* C11: backward() never aborts on an absent gradient: a node's own gradient
\* is present whenever its closure is invoked, and a closure takes an
\* input's absent gradient as zero.
C11_NoAbsentGradientAbort ==
    /\ pc # "unwrap_none"
    /\ pc = "call" => grad[topo[i]].some
    /\ (pc = "loop" /\ i > 1 /\ _backward[topo[i - 1]] # "None")
       => \A c \in ChildSet(topo[i - 1]) : grad[c].some

\* the closure of a node other than the terminal is invoked while one of
\* its inputs has no gradient
C11_Witness ==
    /\ pc = "call"
    /\ topo[i] # self
    /\ \E c \in ChildSet(topo[i]) : ~ grad[c].some

\* C12: when the closure of a node n is invoked, the closure of every
\* reachable node that lists n as an input has already run in this call, and
\* the terminal's gradient was seeded before any closure ran.
C12_ConsumersFirst ==
    /\ pc = "call"
       => \A m \in Reach(self) :
             topo[i] \in ChildSet(m) => (m # topo[i] /\ ran[m] = 1)
    /\ (pc \in {"loop", "call"}) => grad[self] = Some(1)

\* the closure of a node with a consumer is invoked
C12_Witness ==
    /\ pc = "call"
    /\ \E m \in Reach(self) : topo[i] \in ChildSet(m) /\ ran[m] = 1

\* C13: for out = a * b with a and b distinct, the multiply closure sets
\* a.grad to a's previous gradient (zero if absent) + out.grad * b.data and
\* b.grad to b's previous gradient (zero if absent) + out.grad * a.data.
C13_MulDistinct ==
    [][(/\ pc = "call"
        /\ pc' = "loop"
        /\ _backward[topo[i]] = "mul"
        /\ _children[topo[i]][1] # _children[topo[i]][2])
       => LET a == _children[topo[i]][1]
              b == _children[topo[i]][2]
              prev_a == IF grad[a].some THEN grad[a].val ELSE 0
              prev_b == IF grad[b].some THEN grad[b].val ELSE 0
          IN  /\ grad'[a] = Some(prev_a + grad[topo[i]].val * data[b])
              /\ grad'[b] = Some(prev_b + grad[topo[i]].val * data[a])]_vars

\* a multiply closure over distinct operands of different data has run, one
\* operand holding a gradient before and the other none
C13_Witness ==
    /\ pc = "loop"
    /\ i > 1
    /\ _backward[topo[i - 1]] = "mul"
    /\ LET a == _children[topo[i - 1]][1]
           b == _children[topo[i - 1]][2]
       IN  /\ a # b
           /\ data[a] # data[b]
           /\ grad0[a].some # grad0[b].some
           /\ grad[a].some
           /\ grad[b].some

TwiceFromSameTerminal ==
    /\ pc = "idle"
    /\ calls = 2
    /\ prevSelf = self
    /\ \A n \in Reach(self) : _op[n] \in {"None", "+", "*"}

RECURSIVE SumSlotsDepth(_, _, _, _)
RECURSIVE DerivDepth(_, _, _)
\* the sum over the paths from t to n of (d + length of the path) times the
\* product of the local derivatives along the path
DerivDepth(t, n, d) == IF t = n THEN d ELSE SumSlotsDepth(t, n, d, 1)
SumSlotsDepth(t, n, d, k) ==
    IF k > Len(_children[t]) THEN 0
    ELSE Local(t, k) * DerivDepth(_children[t][k], n, d + 1)
         + SumSlotsDepth(t, n, d, k + 1)

\* every path from t to n is a single edge
DirectInputOnly(t, n) ==
    /\ n \in ChildSet(t)
    /\ \A m \in Reach(t) \ {t} : n \notin ChildSet(m)

C16_SeedIsOne ==
    (pc \in {"loop", "call"} \/ Returned) => grad[self] = Some(1)

\* a returned backward() from a terminal that held a gradient other than 1,
\* received from an earlier backward() on a node that consumes it
C16_Witness ==
    /\ Returned
    /\ grad0[self].some
    /\ grad0[self].val # 1
    /\ prevSelf # self
    /\ prevSelf # 0
    /\ self \in ChildSet(prevSelf)
    /\ grad[self] = Some(1)

\* C19: a backward() call leaves unchanged the gradient of every node not
\* reachable from its terminal through inputs.
C19_UnreachableUnchanged ==
    calls >= 1 => \A n \in Nodes \ Reach(self) : grad[n] = grad0[n]

\* a returned backward() whose terminal is consumed by a node holding a
\* gradient and sharing an input with it
C19_Witness ==
    /\ Returned
    /\ \E n \in Nodes \ Reach(self) :
          /\ grad[n].some
          /\ self \in ChildSet(n)
          /\ \E c \in ChildSet(self) : c \in ChildSet(n)

\* C17: a leaf has no inputs and no closure, a tanh or relu node has one
\* input, an add or multiply node of operands a and b has the inputs
\* <<a, b>> in operand order, the same node twice when a and b are the same.
C17_InputsMatchOperands ==
    \A n \in Nodes :
       /\ _op[n] \in {"None", "tanh", "relu", "+", "*"}
       /\ _op[n] = "None" => (_children[n] = <<>> /\ _backward[n] = "None")
       /\ _op[n] \in {"tanh", "relu"} => Len(_children[n]) = 1
       /\ _op[n] \in {"+", "*"} => Len(_children[n]) = 2
       /\ Len(_children[n]) = Len(operands[n])
       /\ \A k \in 1..Len(operands[n]) : _children[n][k] = operands[n][k]

\* an add node of two distinct operands given in decreasing order of
\* creation, next to a binary node of one operand taken twice
C17_Witness ==
    /\ \E n \in Nodes :
          /\ _op[n] = "+"
          /\ operands[n][1] > operands[n][2]
          /\ _op[operands[n][1]] \in {"+", "*"}
          /\ operands[operands[n][1]][1] = operands[operands[n][1]][2]
          /\ _op[operands[n][2]] = "None"

RECURSIVE ReachWithin(_, _)
\* the nodes reached from n through at most k input edges
ReachWithin(n, k) ==
    IF k = 0 THEN {n}
    ELSE {n} \cup UNION {ReachWithin(_children[n][j], k - 1) : j \in 1..Len(_children[n])}

\* C18: the inputs relation is acyclic: every input of a node was created
\* before the node, so no node is reachable from itself through inputs.
C18_Acyclic ==
    \A n \in Nodes :
       /\ \A j \in 1..Len(_children[n]) : _children[n][j] \in Nodes /\ _children[n][j] < n
       /\ n \notin UNION {ReachWithin(_children[n][j], Len(data)) : j \in 1..Len(_children[n])}

\* a tanh node over a multiply node over a leaf
C18_Witness ==
    \E n \in Nodes :
       /\ _op[n] = "tanh"
       /\ _op[_children[n][1]] = "*"
       /\ _op[_children[_children[n][1]][1]] = "None"

====
